---- MODULE Spec2Model ----
(***************************************************************************)
(* Model of src/MetricsListener.js: a request listener that serves host    *)
(* telemetry from two self-refreshing cache cells (CPU, network), a        *)
(* per-request memory fetch, a request counter and a health route.         *)
(*                                                                         *)
(* JavaScript strings are sequences of one-character strings.  Every       *)
(* StatSource (systeminformation) call is identified by its issue number   *)
(* within its family; the value or the error a call settles with carries   *)
(* that number, so that "which call's result is this" can be read off the  *)
(* state.  Promise callbacks of one settled call run back to back in the   *)
(* microtask queue, so each settlement is one action.                      *)
(***************************************************************************)
EXTENDS Integers, Sequences, FiniteSets, TLC

\* ------------------------------------------------------------------ bounds
\* longest apiPath argument tried by the constructor specification
MaxLen == 4
\* StatSource calls issued per cache cell (seed call included) when only sampling runs
MaxCalls == 3
\* the same while requests are served
MaxServedCalls == 2
\* failed interface resolutions when only sampling runs
MaxBootFailures == 2
\* the same while requests are served
MaxServedBootFailures == 1
\* requests handled
MaxRequests == 2
\* /memory requests among them
MaxMemRequests == 2
\* latest capture time (unix seconds) the clock is read at
MaxTime == 2

\* --------------------------------------------------------------- strings
\* s.endsWith(c) for a one-character c
EndsWith(s, c) == Len(s) > 0 /\ s[Len(s)] = c

\* s.startsWith(p)
StartsWith(s, p) == Len(s) >= Len(p) /\ SubSeq(s, 1, Len(p)) = p

\* The characters apiPath arguments are built from: a slash, a letter, a blank.
Alphabet == {"/", "m", " "}

RECURSIVE StringsUpTo(_)
StringsUpTo(n) ==
  IF n = 0 THEN {<<>>}
  ELSE LET shorter == StringsUpTo(n - 1)
       IN  shorter \cup {Append(s, c) : s \in shorter, c \in Alphabet}

\* line 6
DEFAULT_PATH_PREFIX == <<"/", "m", "e", "t", "r", "i", "c", "s">>
\* line 7
DEFAULT_INTERVAL == 1000

\* A constructor argument: given or not (undefined), and its value.
Missing == [given |-> FALSE, s |-> <<>>]
Given(s) == [given |-> TRUE, s |-> s]

\* a plausible slip: only one trailing slash is removed
StripOneSlash(s) == IF EndsWith(s, "/") THEN SubSeq(s, 1, Len(s) - 1) ELSE s

\* lines 14-16: while (apiPath.endsWith('/')) apiPath = apiPath.substring(0, length - 1)
RECURSIVE StripTrailingSlashes(_)
StripTrailingSlashes(s) ==
  IF EndsWith(s, "/") THEN StripTrailingSlashes(SubSeq(s, 1, Len(s) - 1)) ELSE s

\* lines 13-19: the effective prefix of new MetricsListener(apiPath, ...)
NormalizeApiPath(arg) ==
  LET a == IF arg.given /\ arg.s # <<>> THEN arg.s ELSE DEFAULT_PATH_PREFIX
      b == StripTrailingSlashes(a)
  IN  IF b = <<>> THEN DEFAULT_PATH_PREFIX ELSE b

\* An interval argument: whether Number.isInteger holds of it, and its integer part.
IntervalArgs ==
  {[isInteger |-> FALSE, n |-> 0], [isInteger |-> FALSE, n |-> 2],
   [isInteger |-> TRUE, n |-> -1], [isInteger |-> TRUE, n |-> 0],
   [isInteger |-> TRUE, n |-> 1], [isInteger |-> TRUE, n |-> 2]}

\* lines 21-23
NormalizeInterval(arg) ==
  IF ~arg.isInteger \/ arg.n < 1 THEN DEFAULT_INTERVAL ELSE arg.n


\* ----------------------------------------------------------------- values
\* this.lastCpuError = null / this.lastNetworkError = null (lines 65-66)
NULL == [family |-> "none", call |-> 0]

\* The reason StatSource call number `call` of `family` rejects with.
Failure(family, call) == [family |-> family, call |-> call]

\* lines 38-54: the CPU default (currentload_idle 100, every other load 0)
DefaultCpuData ==
  [call |-> 0, dateCaptured |-> 0, currentload |-> 0, currentload_idle |-> 100]

\* lines 55-64: the network default (rates -1: not yet measurable)
DefaultNetworkData ==
  [call |-> 0, dateCaptured |-> 0, iface |-> "unknown", rx |-> 0, tx |-> 0,
   rx_sec |-> -1, tx_sec |-> -1]

\* What SystemInformation.currentLoad() call number n resolves with (lines 72, 89).
CurrentLoad(n) ==
  [call |-> n, dateCaptured |-> 0, currentload |-> n, currentload_idle |-> 100 - n]

\* What SystemInformation.networkStats(nic) call number n resolves with (lines 118, 136).
NetworkStats(n, iface) ==
  [call |-> n, dateCaptured |-> 0, iface |-> iface, rx |-> 10 * n, tx |-> 10 * n + 1,
   rx_sec |-> n, tx_sec |-> n + 1]

\* What SystemInformation.mem() call number n resolves with (line 197).
Mem(n) == [call |-> n, dateCaptured |-> 0, total |-> 100, free |-> n]

\* stats['dateCaptured'] = Moment.utc().unix() (lines 95, 141, 199)
Stamp(stats, t) == [stats EXCEPT !.dateCaptured = t]

\* the interfaces networkInterfaceDefault() can resolve with (line 114)
Nics == {"eth0"}

\* the capture times Moment.utc().unix() can return
Times == 1 .. MaxTime

\* ------------------------------------------------------------------ state
VARIABLES
  constructed,       \* the constructor has run
  ctorApiPath,       \* the apiPath argument of the constructor
  ctorInterval,      \* the interval argument of the constructor
  apiPath,           \* this.apiPath
  interval,          \* this.interval
  requestCount,      \* this.requestCount
  lastCpuData,       \* this.lastCpuData
  lastCpuError,      \* this.lastCpuError
  cpuIntervals,      \* this.cpuIntervals
  lastNetworkData,   \* this.lastNetworkData
  lastNetworkError,  \* this.lastNetworkError
  networkIntervals,  \* this.networkIntervals
  cpuSeedPending,    \* the first currentLoad() call while it has not settled
  cpuCalls,          \* currentLoad() calls issued so far
  cpuPending,        \* the tick calls of currentLoad() not yet settled
  ifacePending,      \* networkInterfaceDefault() calls not yet settled
  retryPending,      \* retry timeouts set and not yet fired
  netSeedPending,    \* the seed networkStats() calls not yet settled
  nic,               \* the interface the bootstrap resolved
  netCalls,          \* networkStats() calls issued so far
  netPending,        \* the tick calls of networkStats() not yet settled
  ifaceCalls,        \* networkInterfaceDefault() calls issued so far
  netTimers,         \* setInterval calls made by _initNetworkMonitoring
  cpuTimers,         \* setInterval calls made by _initCpuMonitoring
  unhandled,         \* rejections no handler of the promise chain received
  memCalls,          \* mem() calls issued so far
  memPending,        \* [req, call]: the /memory requests whose mem() call is pending
  memRes,            \* the response objects of the /memory requests, by request
  memIssued,         \* history: the mem() call each /memory request issued
  nReq,              \* requests handled so far
  last,              \* the most recent request and what its handler did to req and res
  counted,           \* history: requests outside the seven known routes
  cpuOk,             \* history: the currentLoad() calls that resolved, in completion order
  netOk,             \* history: the networkStats() calls that resolved, in completion order
  lastEvent          \* history: the step taken last

cpuVars == <<lastCpuData, lastCpuError, cpuIntervals>>
netVars == <<lastNetworkData, lastNetworkError, networkIntervals>>
cpuRun == <<cpuSeedPending, cpuCalls, cpuPending, cpuTimers, cpuOk>>
netRun ==
  <<ifacePending, retryPending, netSeedPending, nic, netCalls, netPending, ifaceCalls,
    netTimers, netOk, unhandled>>
reqVars == <<requestCount, memCalls, memPending, memRes, memIssued, nReq, last, counted>>
ctorVars == <<constructed, ctorApiPath, ctorInterval, apiPath, interval>>
vars == <<ctorVars, cpuVars, netVars, cpuRun, netRun, reqVars, lastEvent>>

Event(op, call, ok) == [op |-> op, call |-> call, ok |-> ok]

\* A response object nothing was written to.
FreshRes ==
  [statusCode |-> 0, contentType |-> "", body |-> [kind |-> "unset"], ends |-> 0]

NoRequest ==
  [id |-> 0, pathname |-> <<>>, requestHandled |-> FALSE, res |-> FreshRes,
   trace |-> <<>>]


\* ------------------------------------------------------------ construction
\* Before new MetricsListener(apiPath, interval): no field is set, nothing is pending.
Unconstructed(paths, intervals) ==
  /\ constructed = FALSE
  /\ ctorApiPath \in paths
  /\ ctorInterval \in intervals
  /\ apiPath = <<>>
  /\ interval = 0
  /\ requestCount = 0
  /\ lastCpuData = DefaultCpuData
  /\ lastCpuError = NULL
  /\ cpuIntervals = 0
  /\ lastNetworkData = DefaultNetworkData
  /\ lastNetworkError = NULL
  /\ networkIntervals = 0
  /\ cpuSeedPending = {}
  /\ cpuCalls = 0
  /\ cpuPending = {}
  /\ cpuTimers = 0
  /\ ifacePending = 0
  /\ retryPending = 0
  /\ netSeedPending = {}
  /\ nic = "unknown"
  /\ netCalls = 0
  /\ netPending = {}
  /\ ifaceCalls = 0
  /\ netTimers = 0
  /\ unhandled = 0
  /\ memCalls = 0
  /\ memPending = {}
  /\ memRes = <<>>
  /\ memIssued = <<>>
  /\ nReq = 0
  /\ last = NoRequest
  /\ counted = 0
  /\ cpuOk = <<>>
  /\ netOk = <<>>
  /\ lastEvent = Event("none", 0, TRUE)

\* lines 35-67: _initializeDefaults
InitializeDefaults ==
  /\ requestCount' = 0
  /\ lastCpuData' = DefaultCpuData
  /\ lastNetworkData' = DefaultNetworkData
  /\ lastCpuError' = NULL
  /\ lastNetworkError' = NULL

\* lines 71-72: _initCpuMonitoring up to the first currentLoad() call; the
\* .then/.catch/.then chain of lines 73-108 runs when that call settles.
InitCpuMonitoring ==
  /\ cpuIntervals' = 0
  /\ cpuCalls' = cpuCalls + 1
  /\ cpuSeedPending' = cpuSeedPending \cup {cpuCalls + 1}

\* lines 113-114: _initNetworkMonitoring up to the networkInterfaceDefault() call
InitNetworkMonitoring ==
  /\ networkIntervals' = 0
  /\ ifaceCalls' = ifaceCalls + 1
  /\ ifacePending' = ifacePending + 1

\* lines 11-33: the constructor
Construct ==
  /\ ~constructed
  /\ constructed' = TRUE
  /\ apiPath' = NormalizeApiPath(ctorApiPath)
  /\ interval' = NormalizeInterval(ctorInterval)
  /\ InitializeDefaults
  /\ InitCpuMonitoring
  /\ InitNetworkMonitoring
  /\ lastEvent' = Event("Construct", 0, TRUE)
  /\ UNCHANGED <<ctorApiPath, ctorInterval, cpuPending, cpuTimers, cpuOk, retryPending,
                 netSeedPending, nic, netCalls, netPending, netTimers, netOk, unhandled,
                 memCalls, memPending, memRes, memIssued, nReq, last, counted>>

\* ---------------------------------------------------------------- CPU cell
\* a plausible slip: the first completed sample is adopted too
CpuAdoptsFirst(n) == n >= 1

\* line 93: if (++this.cpuIntervals > 1), n the incremented counter
CpuAdopts(n) == n > 1

\* lines 73-87: the first currentLoad() resolved: count it, start the interval
CpuSeedResolved(c) ==
  /\ c \in cpuSeedPending
  /\ cpuSeedPending' = cpuSeedPending \ {c}
  /\ cpuIntervals' = cpuIntervals + 1
  /\ cpuTimers' = cpuTimers + 1
  /\ cpuOk' = Append(cpuOk, c)
  /\ lastEvent' = Event("CpuSeed", c, TRUE)
  /\ UNCHANGED <<ctorVars, lastCpuData, lastCpuError, netVars, cpuCalls, cpuPending,
                 netRun, reqVars>>

\* a plausible slip: the interval is started in the success callback only
CpuSeedRejectedNoTimer(c) ==
  /\ c \in cpuSeedPending
  /\ cpuSeedPending' = cpuSeedPending \ {c}
  /\ lastCpuError' = Failure("cpu", c)
  /\ lastEvent' = Event("CpuSeed", c, FALSE)
  /\ UNCHANGED <<ctorVars, lastCpuData, cpuIntervals, netVars, cpuCalls, cpuPending,
                 cpuTimers, cpuOk, netRun, reqVars>>

\* lines 79-87: the first currentLoad() rejected: record it, start the interval
CpuSeedRejected(c) ==
  /\ c \in cpuSeedPending
  /\ cpuSeedPending' = cpuSeedPending \ {c}
  /\ lastCpuError' = Failure("cpu", c)
  /\ cpuTimers' = cpuTimers + 1
  /\ lastEvent' = Event("CpuSeed", c, FALSE)
  /\ UNCHANGED <<ctorVars, lastCpuData, cpuIntervals, netVars, cpuCalls, cpuPending,
                 cpuOk, netRun, reqVars>>

\* a plausible slip: setInterval is called next to the first currentLoad(), not after it
CpuTickEager(maxCalls) ==
  /\ constructed
  /\ cpuCalls < maxCalls
  /\ cpuCalls' = cpuCalls + 1
  /\ cpuPending' = cpuPending \cup {cpuCalls + 1}
  /\ lastEvent' = Event("CpuTick", cpuCalls + 1, TRUE)
  /\ UNCHANGED <<ctorVars, cpuVars, netVars, cpuSeedPending, cpuTimers, cpuOk, netRun,
                 reqVars>>

\* lines 87-89: an interval fires and issues a currentLoad() call, whatever is pending
CpuTick(maxCalls) ==
  /\ cpuTimers > 0
  /\ cpuCalls < maxCalls
  /\ cpuCalls' = cpuCalls + 1
  /\ cpuPending' = cpuPending \cup {cpuCalls + 1}
  /\ lastEvent' = Event("CpuTick", cpuCalls + 1, TRUE)
  /\ UNCHANGED <<ctorVars, cpuVars, netVars, cpuSeedPending, cpuTimers, cpuOk, netRun,
                 reqVars>>

\* a plausible slip: a sequencing token drops a sample older than the adopted one
CpuTickResolvedSequenced(c, t) ==
  /\ c \in cpuPending
  /\ cpuPending' = cpuPending \ {c}
  /\ cpuIntervals' = cpuIntervals + 1
  /\ IF CpuAdopts(cpuIntervals + 1) /\ c > lastCpuData.call
       THEN /\ lastCpuData' = Stamp(CurrentLoad(c), t)
            /\ lastCpuError' = NULL
       ELSE UNCHANGED <<lastCpuData, lastCpuError>>
  /\ cpuOk' = Append(cpuOk, c)
  /\ lastEvent' = Event("CpuDone", c, TRUE)
  /\ UNCHANGED <<ctorVars, netVars, cpuSeedPending, cpuCalls, cpuTimers, netRun, reqVars>>

\* lines 90-100: a tick's currentLoad() resolved
CpuTickResolved(c, t) ==
  /\ c \in cpuPending
  /\ cpuPending' = cpuPending \ {c}
  /\ cpuIntervals' = cpuIntervals + 1
  /\ IF CpuAdopts(cpuIntervals + 1)
       THEN /\ lastCpuData' = Stamp(CurrentLoad(c), t)
            /\ lastCpuError' = NULL
       ELSE UNCHANGED <<lastCpuData, lastCpuError>>
  /\ cpuOk' = Append(cpuOk, c)
  /\ lastEvent' = Event("CpuDone", c, TRUE)
  /\ UNCHANGED <<ctorVars, netVars, cpuSeedPending, cpuCalls, cpuTimers, netRun, reqVars>>

\* a plausible slip: the tick counts the sample before it knows the call's outcome
CpuTickRejectedCounts(c) ==
  /\ c \in cpuPending
  /\ cpuPending' = cpuPending \ {c}
  /\ cpuIntervals' = cpuIntervals + 1
  /\ lastCpuError' = Failure("cpu", c)
  /\ lastEvent' = Event("CpuDone", c, FALSE)
  /\ UNCHANGED <<ctorVars, lastCpuData, netVars, cpuSeedPending, cpuCalls,
                 cpuTimers, cpuOk, netRun, reqVars>>

\* lines 101-105: a tick's currentLoad() rejected
CpuTickRejected(c) ==
  /\ c \in cpuPending
  /\ cpuPending' = cpuPending \ {c}
  /\ lastCpuError' = Failure("cpu", c)
  /\ lastEvent' = Event("CpuDone", c, FALSE)
  /\ UNCHANGED <<ctorVars, lastCpuData, cpuIntervals, netVars, cpuSeedPending, cpuCalls,
                 cpuTimers, cpuOk, netRun, reqVars>>

\* ------------------------------------------------------------ network cell
\* a plausible slip: the comparison is off by one and the second sample is dropped too
NetAdoptsLate(n) == n > 2

\* line 139: if (++this.networkIntervals > 1), n the incremented counter
NetAdopts(n) == n > 1

\* lines 115-118: the interface resolved; the seed networkStats(nic) call is issued
NetIfaceResolved(i) ==
  /\ ifacePending > 0
  /\ ifacePending' = ifacePending - 1
  /\ nic' = i
  /\ netCalls' = netCalls + 1
  /\ netSeedPending' = netSeedPending \cup {netCalls + 1}
  /\ lastEvent' = Event("NetIface", ifaceCalls, TRUE)
  /\ UNCHANGED <<ctorVars, cpuVars, netVars, cpuRun, retryPending, netPending,
                 ifaceCalls, netTimers, netOk, unhandled, reqVars>>

\* a plausible slip: the failure is recorded and no retry is scheduled
NetIfaceRejectedGivesUp(maxFailures) ==
  /\ ifacePending > 0
  /\ ifaceCalls <= maxFailures
  /\ ifacePending' = ifacePending - 1
  /\ lastNetworkError' = Failure("iface", ifaceCalls)
  /\ lastEvent' = Event("NetIface", ifaceCalls, FALSE)
  /\ UNCHANGED <<ctorVars, cpuVars, lastNetworkData, networkIntervals, cpuRun,
                 retryPending, netSeedPending, nic, netCalls, netPending, ifaceCalls,
                 netTimers, netOk, unhandled, reqVars>>

\* lines 151-158: the interface did not resolve: record it, set the retry timeout
NetIfaceRejected(maxFailures) ==
  /\ ifacePending > 0
  /\ ifaceCalls <= maxFailures
  /\ ifacePending' = ifacePending - 1
  /\ lastNetworkError' = Failure("iface", ifaceCalls)
  /\ retryPending' = retryPending + 1
  /\ lastEvent' = Event("NetIface", ifaceCalls, FALSE)
  /\ UNCHANGED <<ctorVars, cpuVars, lastNetworkData, networkIntervals, cpuRun,
                 netSeedPending, nic, netCalls, netPending, ifaceCalls, netTimers, netOk,
                 unhandled, reqVars>>

\* a plausible slip: the retry runs _initializeDefaults again, as the constructor does
NetRetryReinit ==
  /\ retryPending > 0
  /\ retryPending' = retryPending - 1
  /\ InitNetworkMonitoring
  /\ requestCount' = 0
  /\ lastEvent' = Event("NetRetry", ifaceCalls + 1, TRUE)
  /\ UNCHANGED <<ctorVars, cpuVars, lastNetworkData, lastNetworkError, cpuRun,
                 netSeedPending, nic, netCalls, netPending, netTimers, netOk, unhandled,
                 memCalls, memPending, memRes, memIssued, nReq, last, counted>>

\* lines 156-158: a retry timeout fires: this._initNetworkMonitoring()
NetRetry ==
  /\ retryPending > 0
  /\ retryPending' = retryPending - 1
  /\ InitNetworkMonitoring
  /\ lastEvent' = Event("NetRetry", ifaceCalls + 1, TRUE)
  /\ UNCHANGED <<ctorVars, cpuVars, lastNetworkData, lastNetworkError, cpuRun,
                 netSeedPending, nic, netCalls, netPending, netTimers, netOk, unhandled,
                 reqVars>>

\* lines 119-147: a seed networkStats() resolved: count it, start the interval
NetSeedResolved(c) ==
  /\ c \in netSeedPending
  /\ netSeedPending' = netSeedPending \ {c}
  /\ networkIntervals' = networkIntervals + 1
  /\ netTimers' = netTimers + 1
  /\ netOk' = Append(netOk, c)
  /\ lastEvent' = Event("NetSeed", c, TRUE)
  /\ UNCHANGED <<ctorVars, cpuVars, lastNetworkData, lastNetworkError, cpuRun,
                 ifacePending, retryPending, nic, netCalls, netPending, ifaceCalls,
                 unhandled, reqVars>>

\* a plausible slip: the network catch was copied from the CPU cell and kept its field
NetSeedRejectedShared(c) ==
  /\ c \in netSeedPending
  /\ netSeedPending' = netSeedPending \ {c}
  /\ lastCpuError' = Failure("network", c)
  /\ netTimers' = netTimers + 1
  /\ lastEvent' = Event("NetSeed", c, FALSE)
  /\ UNCHANGED <<ctorVars, lastCpuData, cpuIntervals, netVars, cpuRun,
                 ifacePending, retryPending, nic, netCalls, netPending, ifaceCalls,
                 netOk, unhandled, reqVars>>

\* a plausible slip: the inner catch rethrows, so the outer catch schedules a retry too
NetSeedRejectedRetries(c) ==
  /\ c \in netSeedPending
  /\ netSeedPending' = netSeedPending \ {c}
  /\ lastNetworkError' = Failure("network", c)
  /\ netTimers' = netTimers + 1
  /\ retryPending' = retryPending + 1
  /\ lastEvent' = Event("NetSeed", c, FALSE)
  /\ UNCHANGED <<ctorVars, cpuVars, lastNetworkData, networkIntervals, cpuRun,
                 ifacePending, nic, netCalls, netPending, ifaceCalls,
                 netOk, unhandled, reqVars>>

\* lines 125-147: a seed networkStats() rejected: record it, start the interval
NetSeedRejected(c) ==
  /\ c \in netSeedPending
  /\ netSeedPending' = netSeedPending \ {c}
  /\ lastNetworkError' = Failure("network", c)
  /\ netTimers' = netTimers + 1
  /\ lastEvent' = Event("NetSeed", c, FALSE)
  /\ UNCHANGED <<ctorVars, cpuVars, lastNetworkData, networkIntervals, cpuRun,
                 ifacePending, retryPending, nic, netCalls, netPending, ifaceCalls,
                 netOk, unhandled, reqVars>>

\* lines 134-136: an interval fires and issues a networkStats(nic) call
NetTick(maxCalls) ==
  /\ netTimers > 0
  /\ netCalls < maxCalls
  /\ netCalls' = netCalls + 1
  /\ netPending' = netPending \cup {netCalls + 1}
  /\ lastEvent' = Event("NetTick", netCalls + 1, TRUE)
  /\ UNCHANGED <<ctorVars, cpuVars, netVars, cpuRun, ifacePending, retryPending,
                 netSeedPending, nic, ifaceCalls, netTimers, netOk, unhandled, reqVars>>

\* lines 137-145: a tick's networkStats() resolved
NetTickResolved(c, t) ==
  /\ c \in netPending
  /\ netPending' = netPending \ {c}
  /\ networkIntervals' = networkIntervals + 1
  /\ IF NetAdopts(networkIntervals + 1)
       THEN /\ lastNetworkData' = Stamp(NetworkStats(c, nic), t)
            /\ lastNetworkError' = NULL
       ELSE UNCHANGED <<lastNetworkData, lastNetworkError>>
  /\ netOk' = Append(netOk, c)
  /\ lastEvent' = Event("NetDone", c, TRUE)
  /\ UNCHANGED <<ctorVars, cpuVars, cpuRun, ifacePending, retryPending, netSeedPending,
                 nic, netCalls, ifaceCalls, netTimers, unhandled, reqVars>>

\* lines 136-145: a tick's networkStats() rejected; the chain has no .catch, so the
\* rejection reaches no handler of the listener and none of its fields changes
NetTickRejected(c) ==
  /\ c \in netPending
  /\ netPending' = netPending \ {c}
  /\ unhandled' = unhandled + 1
  /\ lastEvent' = Event("NetDone", c, FALSE)
  /\ UNCHANGED <<ctorVars, cpuVars, netVars, cpuRun, ifacePending, retryPending,
                 netSeedPending, nic, netCalls, ifaceCalls, netTimers, netOk, reqVars>>

\* ------------------------------------------------------------------ routes
HEALTH == <<"/", "h", "e", "a", "l", "t", "h">>
REQUESTS_TOTAL == <<"/", "r", "e", "q", "u", "e", "s", "t", "s", "/", "t", "o", "t", "a", "l">>
CPU == <<"/", "c", "p", "u">>
MEMORY == <<"/", "m", "e", "m", "o", "r", "y">>
NETWORK == <<"/", "n", "e", "t", "w", "o", "r", "k">>
NETWORK_RX == NETWORK \o <<"/", "r", "x">>
NETWORK_TX == NETWORK \o <<"/", "t", "x">>

\* urlParse(req.url).pathname (line 165): the url up to its query or fragment
RECURSIVE Pathname(_)
Pathname(url) ==
  IF url = <<>> \/ Head(url) \in {"?", "#"} THEN <<>>
  ELSE <<Head(url)>> \o Pathname(Tail(url))

\* a plausible slip: any path that starts with the prefix is claimed
ClaimsByPrefix(pathname, prefix) == StartsWith(pathname, prefix)

\* line 167, negated: the path is the prefix or lies under prefix + "/"
Claims(pathname, prefix) ==
  pathname = prefix \/ StartsWith(pathname, prefix \o <<"/">>)

\* lines 177-230: the case the switch takes
Route(pathname, prefix) ==
  CASE pathname = prefix \o HEALTH -> "health"
    [] pathname = prefix \o REQUESTS_TOTAL -> "requests/total"
    [] pathname = prefix \o CPU -> "cpu"
    [] pathname = prefix \o MEMORY -> "memory"
    [] pathname = prefix \o NETWORK -> "network"
    [] pathname = prefix \o NETWORK_RX -> "network/rx"
    [] pathname = prefix \o NETWORK_TX -> "network/tx"
    [] OTHER -> "default"

\* JavaScript values as the encoders see them: typeof, and the value
Str(v) == [type |-> "string", v |-> v]
Obj(v) == [type |-> "object", v |-> v]

\* lines 246-248, 255-257: a string is sent verbatim, anything else as JSON.stringify
Encode(x) ==
  IF x.type = "string" THEN [kind |-> "string", v |-> x.v] ELSE [kind |-> "json", v |-> x.v]

\* the template string `{"metric": ${n}}` (lines 185, 219, 226)
MetricJson(n) == Str([text |-> "metric", n |-> n])

\* lines 243-250
successResponse(res, stat) ==
  [statusCode |-> 200, contentType |-> "application/json", body |-> Encode(stat),
   ends |-> res.ends + 1]

\* lines 252-259
errorResponse(res, error) ==
  [statusCode |-> 500, contentType |-> "application/json", body |-> Encode(error),
   ends |-> res.ends + 1]

\* lines 180-181: res.statusCode = 200; res.end('ok')
HealthResponse(res) ==
  [res EXCEPT !.statusCode = 200, !.body = Encode(Str([text |-> "ok"])),
              !.ends = res.ends + 1]

\* a plausible slip: the default case sets the status and never ends the response
NotFoundNoEnd(res) == [res EXCEPT !.statusCode = 404]

\* lines 234-235: res.statusCode = 404; res.end()
NotFoundResponse(res) ==
  [res EXCEPT !.statusCode = 404, !.body = [kind |-> "empty"], !.ends = res.ends + 1]

\* if (this.lastCpuError) / if (this.lastNetworkError): errors are objects, null is falsy
Truthy(error) == error # NULL

\* a plausible slip: the cached value is served although an error is cached
CpuStale(res) == successResponse(res, Obj(lastCpuData))

\* lines 188-194
CpuResponse(res) ==
  IF Truthy(lastCpuError) THEN errorResponse(res, Obj(lastCpuError))
  ELSE successResponse(res, Obj(lastCpuData))

\* lines 208-214
NetworkResponse(res) ==
  IF Truthy(lastNetworkError) THEN errorResponse(res, Obj(lastNetworkError))
  ELSE successResponse(res, Obj(lastNetworkData))

\* lines 215-221
NetworkRxResponse(res) ==
  IF Truthy(lastNetworkError) THEN errorResponse(res, Obj(lastNetworkError))
  ELSE successResponse(res, MetricJson(lastNetworkData.rx))

\* lines 222-228
NetworkTxResponse(res) ==
  IF Truthy(lastNetworkError) THEN errorResponse(res, Obj(lastNetworkError))
  ELSE successResponse(res, MetricJson(lastNetworkData.tx))

\* lines 184-186
TotalResponse(res) == successResponse(res, MetricJson(requestCount))

\* The seven known routes under the prefix.
KnownRoutes(prefix) ==
  {prefix \o r : r \in {HEALTH, REQUESTS_TOTAL, CPU, MEMORY, NETWORK, NETWORK_RX,
                        NETWORK_TX}}

\* The request urls tried: the known routes, the prefix itself, unknown paths under
\* it, paths that only share its characters, unrelated paths, and urls with a query.
Urls ==
  KnownRoutes(apiPath)
  \cup {apiPath, apiPath \o <<"/">>, apiPath \o <<"/", "b">>, apiPath \o <<"f">>,
        apiPath \o CPU \o <<"/">>, apiPath \o CPU \o <<"?", "q">>,
        DEFAULT_PATH_PREFIX \o CPU, <<"/">>, <<"/", "o", "?", "q">>}

\* StatSource calls issued so far, of every family
StatCalls == cpuCalls + netCalls + ifaceCalls + memCalls

\* a plausible slip: the routes the switch knows are counted as well
CountsEvery(route) == TRUE

\* lines 230-232: the switch counts a claimed request only in its default case
Counts(route) == route = "default"

\* lines 163-239: the listener on one request; req.url = url
Request(url) ==
  LET pathname == Pathname(url)
      id == nReq + 1
      route == Route(pathname, apiPath)
      req == [id |-> id, pathname |-> pathname, requestHandled |-> FALSE,
              res |-> FreshRes, trace |-> <<>>]
  IN
  /\ constructed
  /\ nReq < MaxRequests
  /\ nReq' = id
  /\ counted' = IF pathname \in KnownRoutes(apiPath) THEN counted ELSE counted + 1
  /\ lastEvent' = Event("Request", id, TRUE)
  /\ IF ~Claims(pathname, apiPath)
       THEN \* lines 167-172
            /\ requestCount' = requestCount + 1
            /\ last' = [req EXCEPT !.trace = <<"requestCount">>]
            /\ UNCHANGED <<memCalls, memPending, memRes, memIssued>>
       ELSE \* lines 175-237
            LET claimed == [req EXCEPT !.requestHandled = TRUE] IN
            IF route = "memory"
              THEN \* lines 196-206: the response is written when mem() settles
                   /\ memCalls < MaxMemRequests
                   /\ memCalls' = memCalls + 1
                   /\ memPending' = memPending \cup {[req |-> id, call |-> memCalls + 1]}
                   /\ memRes' = memRes @@ (id :> FreshRes)
                   /\ memIssued' = memIssued @@ (id :> memCalls + 1)
                   /\ last' = [claimed EXCEPT !.trace = <<"requestHandled", "mem">>]
                   /\ UNCHANGED requestCount
              ELSE /\ requestCount' = IF Counts(route) THEN requestCount + 1
                                      ELSE requestCount
                   /\ last' =
                        [claimed EXCEPT
                           !.res = CASE route = "health" -> HealthResponse(@)
                                     [] route = "requests/total" -> TotalResponse(@)
                                     [] route = "cpu" -> CpuResponse(@)
                                     [] route = "network" -> NetworkResponse(@)
                                     [] route = "network/rx" -> NetworkRxResponse(@)
                                     [] route = "network/tx" -> NetworkTxResponse(@)
                                     [] OTHER -> NotFoundResponse(@),
                           !.trace = IF Counts(route)
                                       THEN <<"requestHandled", "requestCount", "end">>
                                       ELSE <<"requestHandled", "end">>]
                   /\ UNCHANGED <<memCalls, memPending, memRes, memIssued>>
  /\ UNCHANGED <<ctorVars, cpuVars, netVars, cpuRun, netRun>>

\* a plausible slip: the result is read from a field the requests share
MemStatsShared(m, t) == Obj(Stamp(Mem(memCalls), t))

\* lines 198-199: the memStats this request's own mem() call resolved with, stamped
MemStats(m, t) == Obj(Stamp(Mem(m.call), t))

\* lines 198-202: a /memory request's mem() resolved
MemResolved(m, t) ==
  /\ m \in memPending
  /\ memPending' = memPending \ {m}
  /\ memRes' = [memRes EXCEPT ![m.req] = successResponse(@, MemStats(m, t))]
  /\ lastEvent' = Event("MemDone", m.req, TRUE)
  /\ UNCHANGED <<ctorVars, cpuVars, netVars, cpuRun, netRun, requestCount, memCalls,
                 memIssued, nReq, last, counted>>

\* lines 203-205: a /memory request's mem() rejected
MemRejected(m) ==
  /\ m \in memPending
  /\ memPending' = memPending \ {m}
  /\ memRes' = [memRes EXCEPT ![m.req] = errorResponse(@, Obj(Failure("mem", m.call)))]
  /\ lastEvent' = Event("MemDone", m.req, FALSE)
  /\ UNCHANGED <<ctorVars, cpuVars, netVars, cpuRun, netRun, requestCount, memCalls,
                 memIssued, nReq, last, counted>>

\* ------------------------------------------------------------ specification
\* The constructor arguments the listener is run with.
ApiPathArgs == {Given(<<"/", "m", "/">>)}
IntervalArgs1 == {[isInteger |-> FALSE, n |-> 0]}

Init == Unconstructed(ApiPathArgs, IntervalArgs1)

\* the settlements and timer firings of the two cache cells
Sampling(maxCalls, maxFailures) ==
  \/ \E c \in cpuSeedPending : CpuSeedResolved(c)
  \/ \E c \in cpuSeedPending : CpuSeedRejected(c)
  \/ CpuTick(maxCalls)
  \/ \E c \in cpuPending, t \in Times : CpuTickResolved(c, t)
  \/ \E c \in cpuPending : CpuTickRejected(c)
  \/ \E i \in Nics : NetIfaceResolved(i)
  \/ NetIfaceRejected(maxFailures)
  \/ NetRetry
  \/ \E c \in netSeedPending : NetSeedResolved(c)
  \/ \E c \in netSeedPending : NetSeedRejected(c)
  \/ NetTick(maxCalls)
  \/ \E c \in netPending, t \in Times : NetTickResolved(c, t)
  \/ \E c \in netPending : NetTickRejected(c)

\* requests and the settlements of their mem() calls
Serving ==
  \/ \E url \in Urls : Request(url)
  \/ \E m \in memPending, t \in Times : MemResolved(m, t)
  \/ \E m \in memPending : MemRejected(m)

\* The listener serving requests while its cells sample.
Next ==
  \/ Construct
  \/ Sampling(MaxServedCalls, MaxServedBootFailures)
  \/ Serving

Spec == Init /\ [][Next]_vars

\* one /memory request's mem() call settles
MemSettles(r) ==
  \E m \in memPending :
    /\ m.req = r
    /\ \/ \E t \in Times : MemResolved(m, t)
       \/ MemRejected(m)

\* Every mem() call settles: the premise under which /memory is answered.
SpecFair == Spec /\ \A r \in 1 .. MaxRequests : WF_vars(MemSettles(r))

\* The cells sampling, no request arriving.
NextSampling ==
  \/ Construct
  \/ Sampling(MaxCalls, MaxBootFailures)

SpecSampling == Init /\ [][NextSampling]_vars

\* a seed networkStats() call settles
NetSeedSettles == \E c \in netSeedPending : NetSeedResolved(c) \/ NetSeedRejected(c)

\* The retry timeout fires once set, and the seed call settles.
SpecSamplingFair == SpecSampling /\ WF_vars(NetRetry) /\ WF_vars(NetSeedSettles)

\* The constructor on every apiPath of up to MaxLen characters and every interval.
InitCtor ==
  Unconstructed({Missing} \cup {Given(s) : s \in StringsUpTo(MaxLen)}, IntervalArgs)

NextCtor == Construct

SpecCtor == InitCtor /\ [][NextCtor]_vars


\* ------------------------------------------------------------------ claims
\* calls of a cell that have settled, resolved or rejected
CpuSettled == cpuCalls - Cardinality(cpuPending) - Cardinality(cpuSeedPending)
NetSettled == netCalls - Cardinality(netPending) - Cardinality(netSeedPending)

\* C1: first-sample suppression. In every reachable state each cell's lastGood is
\* the documented default or the stamped value of a resolved sample that was not
\* the first of the cell to resolve; lastGood differs from the default only when
\* the cell's counter is at least 2; after exactly one completed sample it is
\* still the default (network rates -1).
C1_FirstSampleSuppressed ==
  /\ \/ lastCpuData = DefaultCpuData
     \/ \E i \in 2 .. Len(cpuOk), t \in Times :
          lastCpuData = Stamp(CurrentLoad(cpuOk[i]), t)
  /\ \/ lastNetworkData = DefaultNetworkData
     \/ \E i \in 2 .. Len(netOk), t \in Times :
          lastNetworkData = Stamp(NetworkStats(netOk[i], nic), t)
  /\ lastCpuData # DefaultCpuData => cpuIntervals >= 2
  /\ lastNetworkData # DefaultNetworkData => networkIntervals >= 2
  /\ (cpuIntervals = 1 \/ CpuSettled = 1) => lastCpuData = DefaultCpuData
  /\ (networkIntervals = 1 \/ NetSettled = 1) =>
       /\ lastNetworkData = DefaultNetworkData
       /\ lastNetworkData.rx_sec = -1
       /\ lastNetworkData.tx_sec = -1

\* C1 witness: both cells have adopted a sample, the CPU cell its third call after
\* its first and second resolved, and the network cell's first call resolved too.
C1_Witness ==
  /\ Len(cpuOk) = 3
  /\ lastCpuData.call = cpuOk[3]
  /\ Len(netOk) >= 2
  /\ netOk[1] = 1
  /\ lastNetworkData # DefaultNetworkData


\* C3: every rejected sample of either cell, seed call or timer tick, is recorded
\* in that cell's lastError as it completes, and the cell's lastError then stays
\* non-null until a later sample of the same cell resolves.
C3_EveryRejectionRecorded ==
  [][/\ (lastEvent'.op \in {"CpuSeed", "CpuDone"} /\ ~lastEvent'.ok) =>
          lastCpuError' = Failure("cpu", lastEvent'.call)
     /\ (lastEvent'.op \in {"NetSeed", "NetDone"} /\ ~lastEvent'.ok) =>
          lastNetworkError' = Failure("network", lastEvent'.call)
     /\ (lastCpuError # NULL /\ lastCpuError' = NULL) =>
          (lastEvent'.op \in {"CpuSeed", "CpuDone"} /\ lastEvent'.ok)
     /\ (lastNetworkError # NULL /\ lastNetworkError' = NULL) =>
          (lastEvent'.op \in {"NetSeed", "NetDone"} /\ lastEvent'.ok)]_vars

\* C4: whenever a cell's lastError is non-null and a timer-tick sample of that cell
\* then resolves, lastError is null right after that completion, also when the
\* error came from a rejected seed call or a failed interface resolution.
C4_NextSuccessClearsError ==
  [][/\ (lastCpuError # NULL /\ lastEvent'.op = "CpuDone" /\ lastEvent'.ok) =>
          lastCpuError' = NULL
     /\ (lastNetworkError # NULL /\ lastEvent'.op = "NetDone" /\ lastEvent'.ok) =>
          lastNetworkError' = NULL]_vars

\* What the claims expect a written response to be.
Expect500(error) ==
  [statusCode |-> 500, contentType |-> "application/json",
   body |-> [kind |-> "json", v |-> error], ends |-> 1]
Expect200Json(value) ==
  [statusCode |-> 200, contentType |-> "application/json",
   body |-> [kind |-> "json", v |-> value], ends |-> 1]
Expect200Metric(n) ==
  [statusCode |-> 200, contentType |-> "application/json",
   body |-> [kind |-> "string", v |-> [text |-> "metric", n |-> n]], ends |-> 1]

\* the four routes served from the cache cells
CachedRoutes == {apiPath \o r : r \in {CPU, NETWORK, NETWORK_RX, NETWORK_TX}}

\* C2: a request to /cpu, /network, /network/rx or /network/tx is answered 500 with
\* the cached error exactly when the cell's lastError is non-null as the request is
\* handled, and otherwise 200 with the cached lastGood (or its rx / tx); handling
\* it issues no StatSource call and leaves both cells' lastGood, lastError and
\* counters unchanged.
C2_CachedRoutesServeCache ==
  [][nReq' = nReq + 1 =>
       LET r == last' IN
       /\ r.pathname = apiPath \o CPU =>
            r.res = IF lastCpuError # NULL THEN Expect500(lastCpuError)
                    ELSE Expect200Json(lastCpuData)
       /\ r.pathname = apiPath \o NETWORK =>
            r.res = IF lastNetworkError # NULL THEN Expect500(lastNetworkError)
                    ELSE Expect200Json(lastNetworkData)
       /\ r.pathname = apiPath \o NETWORK_RX =>
            r.res = IF lastNetworkError # NULL THEN Expect500(lastNetworkError)
                    ELSE Expect200Metric(lastNetworkData.rx)
       /\ r.pathname = apiPath \o NETWORK_TX =>
            r.res = IF lastNetworkError # NULL THEN Expect500(lastNetworkError)
                    ELSE Expect200Metric(lastNetworkData.tx)
       /\ r.pathname \in CachedRoutes =>
            /\ UNCHANGED <<cpuVars, netVars>>
            /\ StatCalls' = StatCalls]_vars

\* C2 witness: a /cpu request was just answered 500 with the cached error of a
\* rejected call while the CPU cell still holds that error.
C2_Witness ==
  /\ lastEvent.op = "Request"
  /\ last.pathname = apiPath \o CPU
  /\ lastCpuError # NULL
  /\ last.res = Expect500(lastCpuError)

\* C5: requestCount is the number of handled requests whose path is not one of the
\* seven known routes (paths outside the prefix, the prefix itself, unknown
\* sub-paths, which get 404 when claimed); a request to a known route leaves it
\* unchanged, and /requests/total reports the count without its own request.
C5_RequestCountRule ==
  /\ requestCount = counted
  /\ (last.id > 0 /\ last.pathname = apiPath \o REQUESTS_TOTAL) =>
       last.res = Expect200Metric(requestCount)
  /\ (last.id > 0 /\ last.requestHandled /\ last.pathname \notin KnownRoutes(apiPath)) =>
       last.res.statusCode = 404 /\ last.res.ends = 1

\* C5 witness: /requests/total was asked after one uncounted-route request was
\* counted, and reports 1 although two requests were handled.
C5_Witness ==
  /\ nReq = 2
  /\ last.pathname = apiPath \o REQUESTS_TOTAL
  /\ last.res = Expect200Metric(1)
  /\ requestCount = 1

\* the path is the prefix, or the prefix followed by a slash and anything
UnderPrefix(pathname) ==
  \/ pathname = apiPath
  \/ /\ Len(pathname) > Len(apiPath)
     /\ \A i \in 1 .. Len(apiPath) : pathname[i] = apiPath[i]
     /\ pathname[Len(apiPath) + 1] = "/"

\* C6: a request is claimed (req.requestHandled = true) if and only if its path is
\* the prefix or starts with prefix + "/"; for any other path the handler sets no
\* claim flag, writes no status and no body, and adds exactly one to requestCount;
\* for a claimed request the flag is set before anything is written.
C6_ClaimingRule ==
  [][nReq' = nReq + 1 =>
       LET r == last' IN
       /\ r.requestHandled <=> UnderPrefix(r.pathname)
       /\ ~UnderPrefix(r.pathname) =>
            /\ r.res = FreshRes
            /\ requestCount' = requestCount + 1
            /\ UNCHANGED <<memRes, memPending>>
       /\ UnderPrefix(r.pathname) => r.trace[1] = "requestHandled"]_vars

\* C6 witness: a path that shares the prefix as a string only (prefix + "f") was
\* handled and left unclaimed.
C6_Witness ==
  /\ last.id > 0
  /\ last.pathname = apiPath \o <<"f">>
  /\ ~last.requestHandled
  /\ last.res = FreshRes
  /\ requestCount >= 1


\* the /memory requests whose mem() call has not settled
MemWaiting == {m.req : m \in memPending}

\* Each response object was ended once if its request was claimed and has been
\* answered, and not at all otherwise.
C7_OneResponse ==
  /\ last.id > 0 =>
       /\ (last.requestHandled /\ last.pathname # apiPath \o MEMORY) =>
            last.res.ends = 1 /\ last.res.statusCode \in {200, 404, 500}
       /\ (~last.requestHandled \/ last.pathname = apiPath \o MEMORY) =>
            last.res = FreshRes
       /\ last.pathname = apiPath \o MEMORY => last.id \in DOMAIN memRes
  /\ \A r \in DOMAIN memRes :
       IF r \in MemWaiting THEN memRes[r] = FreshRes
       ELSE memRes[r].ends = 1 /\ memRes[r].statusCode \in {200, 500}

\* C7: every claimed request gets exactly one response, never two: at once on
\* every route but /memory, whose one response (200 or 500) is written when its
\* mem() call settles, which it eventually does.
C7_HandlerTotal ==
  /\ []C7_OneResponse
  /\ \A r \in 1 .. MaxRequests :
       (r \in DOMAIN memRes) ~> (r \in DOMAIN memRes /\ memRes[r].ends = 1)

\* C7 witness: two /memory requests were handled, the first still waits, the second
\* has its one response.
C7_Witness ==
  /\ DOMAIN memRes = {1, 2}
  /\ memRes[1].ends = 0
  /\ memRes[2].ends = 1
  /\ memRes[2].statusCode = 500


\* C8: the network bootstrap never gives up. Each failed interface resolution sets
\* lastNetworkError to that failure and sets exactly one retry timeout, whatever
\* the number of earlier failures; every retry timeout leads to a new attempt; and
\* once an attempt resolves the interface (its seed call settling), the network
\* interval is started.
C8_BootstrapNeverGivesUp ==
  /\ [][(lastEvent'.op = "NetIface" /\ ~lastEvent'.ok) =>
          /\ lastNetworkError' = Failure("iface", lastEvent'.call)
          /\ retryPending' = retryPending + 1
          /\ ifacePending' = ifacePending - 1
          /\ UNCHANGED <<netTimers, netSeedPending>>]_vars
  /\ [][retryPending' < retryPending =>
          ifacePending' = ifacePending + 1 /\ retryPending' = retryPending - 1]_vars
  /\ (retryPending > 0) ~> (ifacePending > 0)
  /\ (netSeedPending # {}) ~> (netTimers > 0)

\* C8 witness: the interface failed to resolve twice, the third attempt resolved
\* it, the seed call settled and the interval runs; the cell still shows the
\* second failure.
C8_Witness ==
  /\ ifaceCalls = 3
  /\ netTimers = 1
  /\ netSeedPending = {}
  /\ lastNetworkError = Failure("iface", 2)

\* C9: every /memory response is decided by the mem() call its own request
\* issued, 200 with that call's stamped value or 500 with that call's error,
\* whatever the other /memory requests and the cells do and in whatever order the
\* calls settle.
C9_MemoryIndependent ==
  \A r \in DOMAIN memRes :
    /\ r \in DOMAIN memIssued
    /\ \A q \in DOMAIN memRes : q # r => memIssued[q] # memIssued[r]
    /\ \/ r \in MemWaiting /\ memRes[r] = FreshRes
       \/ /\ r \notin MemWaiting
          /\ \/ \E t \in Times : memRes[r] = Expect200Json(Stamp(Mem(memIssued[r]), t))
             \/ memRes[r] = Expect500(Failure("mem", memIssued[r]))

\* C9 witness: two /memory requests overlapped; the later one was answered first,
\* 200 with its own call's value, while both cells hold an error, and the earlier
\* one was answered after it.
C9_Witness ==
  /\ DOMAIN memRes = {1, 2}
  /\ lastEvent = Event("MemDone", 1, FALSE)
  /\ memRes[2].statusCode = 200
  /\ memRes[2].body.v.call = 2
  /\ memRes[1] = Expect500(Failure("mem", 1))
  /\ lastCpuError # NULL
  /\ lastNetworkError # NULL

\* every character of s from position k + 1 on is a slash
OnlySlashesAfter(s, k) == \A i \in (k + 1) .. Len(s) : s[i] = "/"

\* s holds nothing but blanks (the empty string included)
OnlyWhitespace(s) == \A i \in 1 .. Len(s) : s[i] = " "

\* the argument less all its trailing slashes
Stripped(s) ==
  LET k == CHOOSE k \in 0 .. Len(s) :
             OnlySlashesAfter(s, k) /\ (k = 0 \/ s[k] # "/")
  IN  SubSeq(s, 1, k)

\* C10 as stated: trailing slashes are stripped, and a missing, empty,
\* whitespace-only or all-slash apiPath becomes /metrics, so the prefix is never
\* empty, never whitespace-only and never ends with "/".
C10_PrefixNormalizedAsStated ==
  constructed =>
    /\ apiPath = IF ~ctorApiPath.given \/ OnlyWhitespace(ctorApiPath.s)
                    \/ Stripped(ctorApiPath.s) = <<>>
                   THEN DEFAULT_PATH_PREFIX
                   ELSE Stripped(ctorApiPath.s)
    /\ apiPath # <<>>
    /\ ~OnlyWhitespace(apiPath)
    /\ ~EndsWith(apiPath, "/")

\* C10, amended: trailing slashes are stripped, and a missing, empty or all-slash
\* apiPath becomes /metrics; blanks are kept, so the prefix is never empty and
\* never ends with "/", and is whitespace-only exactly when the argument less its
\* trailing slashes is.
C10_PrefixNormalized ==
  constructed =>
    /\ apiPath = IF ~ctorApiPath.given \/ Stripped(ctorApiPath.s) = <<>>
                   THEN DEFAULT_PATH_PREFIX
                   ELSE Stripped(ctorApiPath.s)
    /\ apiPath # <<>>
    /\ ~EndsWith(apiPath, "/")

\* C10 witness: the listener was constructed with "/m//" and its prefix is "/m".
C10_Witness ==
  /\ constructed
  /\ ctorApiPath = Given(<<"/", "m", "/", "/">>)
  /\ apiPath = <<"/", "m">>


\* C11: requestCount is monotonic for the lifetime of the listener. Whatever
\* requests, sample settlements, timer ticks and bootstrap retries interleave, it
\* never decreases and is never reset; only the handling of a request changes it,
\* and each handled request changes it by 0 or by 1.
C11_RequestCountMonotonic ==
  [][constructed =>
       /\ requestCount' >= requestCount
       /\ requestCount' # requestCount => nReq' = nReq + 1
       /\ nReq' = nReq + 1 => requestCount' \in {requestCount, requestCount + 1}
       /\ requestCount > 0 => requestCount' > 0]_vars

\* C11 witness: a request was counted, then the interface failed to resolve and
\* the bootstrap was retried; the count is still 1.
C11_Witness ==
  /\ lastEvent.op = "NetRetry"
  /\ nReq >= 1
  /\ requestCount = 1
  /\ networkIntervals = 0


\* Each counter is the number of the cell's calls that resolved, and from the second
\* resolved call on lastGood is the stamped value of the call that resolved last.
C12_CounterAndLastGood ==
  /\ cpuIntervals = Len(cpuOk)
  /\ networkIntervals = Len(netOk)
  /\ cpuIntervals >= 2 =>
       \E t \in Times : lastCpuData = Stamp(CurrentLoad(cpuOk[Len(cpuOk)]), t)
  /\ networkIntervals >= 2 =>
       \E t \in Times : lastNetworkData = Stamp(NetworkStats(netOk[Len(netOk)], nic), t)

\* C12: adoption rule. A cell's counter goes up by one on every resolved sample,
\* seed or tick, and never on a rejected one; a resolved tick is adopted exactly
\* when the incremented counter is > 1, and that completion clears lastError; so
\* wherever the counter is >= 2, lastGood is the value of the sample that resolved
\* last.
C12_AdoptionRule ==
  /\ []C12_CounterAndLastGood
  /\ [][/\ lastEvent'.op \in {"CpuSeed", "CpuDone"} =>
             cpuIntervals' = cpuIntervals + (IF lastEvent'.ok THEN 1 ELSE 0)
        /\ lastEvent'.op \in {"NetSeed", "NetDone"} =>
             networkIntervals' = networkIntervals + (IF lastEvent'.ok THEN 1 ELSE 0)
        /\ (lastEvent'.op = "CpuDone" /\ lastEvent'.ok) =>
             IF cpuIntervals' > 1
               THEN /\ \E t \in Times :
                         lastCpuData' = Stamp(CurrentLoad(lastEvent'.call), t)
                    /\ lastCpuError' = NULL
               ELSE UNCHANGED <<lastCpuData, lastCpuError>>
        /\ (lastEvent'.op = "NetDone" /\ lastEvent'.ok) =>
             IF networkIntervals' > 1
               THEN /\ \E t \in Times :
                         lastNetworkData' = Stamp(NetworkStats(lastEvent'.call, nic), t)
                    /\ lastNetworkError' = NULL
               ELSE UNCHANGED <<lastNetworkData, lastNetworkError>>]_vars

\* C12 witness: the network seed call was rejected and two ticks resolved; the
\* first of them was only counted, the second was adopted and cleared the error.
C12_Witness ==
  /\ netOk = <<2, 3>>
  /\ networkIntervals = 2
  /\ lastNetworkData.call = 3
  /\ lastNetworkError = NULL
  /\ lastEvent = Event("NetDone", 3, TRUE)


\* C13: a rejected sample, seed or tick, leaves its cell's lastGood and counter as
\* they were, so an adopted value survives any run of failures; and no completion
\* of a sample both overwrites lastGood and leaves lastError non-null.
C13_FailureKeepsLastGood ==
  [][/\ (lastEvent'.op \in {"CpuSeed", "CpuDone"} /\ ~lastEvent'.ok) =>
          UNCHANGED <<lastCpuData, cpuIntervals>>
     /\ (lastEvent'.op \in {"NetSeed", "NetDone"} /\ ~lastEvent'.ok) =>
          UNCHANGED <<lastNetworkData, networkIntervals>>
     /\ lastEvent'.op \in {"CpuSeed", "CpuDone", "NetSeed", "NetDone"} =>
          /\ lastCpuData' # lastCpuData => lastCpuError' = NULL
          /\ lastNetworkData' # lastNetworkData => lastNetworkError' = NULL]_vars

\* C13 witness: a CPU tick was adopted and the tick after it was rejected; the
\* adopted value is still there next to the recorded error.
C13_Witness ==
  /\ lastEvent = Event("CpuDone", 3, FALSE)
  /\ cpuOk = <<1, 2>>
  /\ cpuIntervals = 2
  /\ lastCpuData.call = 2
  /\ lastCpuError = Failure("cpu", 3)


\* C14: last to complete wins. A tick call that resolves when the cell's counter
\* is already >= 1 becomes lastGood whatever its issue number is, also when a
\* call issued after it has been adopted before; so once two ticks that were in
\* flight together have both resolved, lastGood is the one that resolved last.
C14_LastToCompleteWins ==
  [][/\ (lastEvent'.op = "CpuDone" /\ lastEvent'.ok /\ cpuIntervals >= 1) =>
          /\ lastCpuData'.call = lastEvent'.call
          /\ lastEvent'.call \in cpuPending
          /\ \A d \in cpuPending \ {lastEvent'.call} : lastCpuData'.call # d
     /\ (lastEvent'.op = "NetDone" /\ lastEvent'.ok /\ networkIntervals >= 1) =>
          /\ lastNetworkData'.call = lastEvent'.call
          /\ lastEvent'.call \in netPending
          /\ \A d \in netPending \ {lastEvent'.call} : lastNetworkData'.call # d]_vars

\* C14 witness: CPU ticks 2 and 3 were in flight together, 3 resolved first and
\* was adopted, then 2 resolved and overwrote it.
C14_Witness ==
  /\ cpuOk = <<1, 3, 2>>
  /\ cpuPending = {}
  /\ lastCpuData.call = 2
  /\ lastEvent = Event("CpuDone", 2, TRUE)


\* C15: a rejected seed call does not block the sampling. The completion of a
\* cell's seed call, resolved or rejected, starts the cell's repeating timer; a
\* rejected seed records lastError, leaves lastGood at its default and the counter
\* at 0 and schedules no bootstrap retry; and a /cpu request handled after a
\* rejected seed and before any CPU call has resolved is answered 500 with the
\* recorded error.
C15_SeedFailureKeepsSampling ==
  [][/\ lastEvent'.op = "CpuSeed" =>
          /\ cpuTimers = 0
          /\ cpuTimers' = 1
     /\ lastEvent'.op = "NetSeed" =>
          /\ nic \in Nics
          /\ netTimers = 0
          /\ netTimers' = 1
     /\ (lastEvent'.op = "CpuSeed" /\ ~lastEvent'.ok) =>
          /\ lastCpuError' = Failure("cpu", lastEvent'.call)
          /\ lastCpuData' = DefaultCpuData
          /\ cpuIntervals' = 0
          /\ UNCHANGED <<ifacePending, retryPending, ifaceCalls>>
     /\ (lastEvent'.op = "NetSeed" /\ ~lastEvent'.ok) =>
          /\ lastNetworkError' = Failure("network", lastEvent'.call)
          /\ lastNetworkData' = DefaultNetworkData
          /\ networkIntervals' = 0
          /\ UNCHANGED <<ifacePending, retryPending, ifaceCalls>>
     /\ (/\ nReq' = nReq + 1
         /\ last'.pathname = apiPath \o CPU
         /\ cpuSeedPending = {}
         /\ cpuOk = <<>>) =>
          /\ lastCpuError # NULL
          /\ last'.res = Expect500(lastCpuError)]_vars

\* C15 witness: the CPU seed call was rejected, the timer runs and has issued a
\* tick that is still pending, and a /cpu request was answered 500 with the
\* seed's error.
C15_Witness ==
  /\ lastEvent.op = "Request"
  /\ last.pathname = apiPath \o CPU
  /\ last.res = Expect500(Failure("cpu", 1))
  /\ cpuOk = <<>>
  /\ cpuIntervals = 0
  /\ lastCpuData = DefaultCpuData
  /\ cpuTimers = 1
  /\ cpuPending = {2}


\* C16 as stated: the CPU cell's repeating timer is started at construction, so
\* it runs in every state of a constructed listener, also while the initial
\* currentLoad() call is pending.
C16_TimerStartedAtConstruction == constructed => cpuTimers >= 1

\* C16: the CPU cell's repeating timer is started when the initial currentLoad()
\* call settles, resolved or rejected, and not before: while that call is pending
\* there is no timer and no tick call has been issued; once it has settled there
\* is exactly one timer, and its ticks are issued whatever tick calls are pending.
C16_TimerStartedWhenSeedSettles ==
  /\ ~constructed => cpuTimers = 0 /\ cpuCalls = 0
  /\ cpuSeedPending # {} =>
       /\ cpuTimers = 0
       /\ cpuCalls = 1
       /\ cpuPending = {}
       /\ cpuOk = <<>>
  /\ (constructed /\ cpuSeedPending = {}) => cpuTimers = 1
  /\ cpuCalls > 1 => cpuSeedPending = {}
  /\ (cpuTimers = 1 /\ cpuCalls < MaxCalls) => ENABLED CpuTick(MaxCalls)

\* C16 witness: the initial call has settled and the timer has fired twice, the
\* second tick issued while the first tick's call was still pending.
C16_Witness ==
  /\ cpuSeedPending = {}
  /\ cpuTimers = 1
  /\ cpuPending = {2, 3}
  /\ lastEvent = Event("CpuTick", 3, TRUE)


\* C17: the cells are independent. Every CPU event (the seed settling, a tick, a
\* tick's call settling) leaves lastNetworkData, lastNetworkError and
\* networkIntervals unchanged, every network event (the interface lookup
\* settling, the retry, the seed settling, a tick, a tick's call settling) leaves
\* lastCpuData, lastCpuError and cpuIntervals unchanged, and a route of one cell
\* is answered 200 whenever that cell's own lastError is null, whatever the other
\* cell holds.
C17_CellsIndependent ==
  [][/\ lastEvent'.op \in {"CpuSeed", "CpuTick", "CpuDone"} => UNCHANGED netVars
     /\ lastEvent'.op \in {"NetIface", "NetRetry", "NetSeed", "NetTick", "NetDone"} =>
          UNCHANGED cpuVars
     /\ (nReq' = nReq + 1 /\ last'.pathname = apiPath \o CPU /\ lastCpuError = NULL) =>
          last'.res.statusCode = 200
     /\ (/\ nReq' = nReq + 1
         /\ last'.pathname \in {apiPath \o r : r \in {NETWORK, NETWORK_RX, NETWORK_TX}}
         /\ lastNetworkError = NULL) =>
          last'.res.statusCode = 200]_vars

\* C17 witness: the network seed call was rejected, the CPU cell has no error,
\* and a /cpu request was answered 200 with the CPU cell's value.
C17_Witness ==
  /\ lastEvent.op = "Request"
  /\ last.pathname = apiPath \o CPU
  /\ last.res = Expect200Json(lastCpuData)
  /\ lastCpuError = NULL
  /\ lastNetworkError = Failure("network", 1)


\* the bootstrap attempts of the network cell that are pending or in flight: an
\* interface lookup, a scheduled retry, or a seed call
BootstrapsInFlight == ifacePending + retryPending + Cardinality(netSeedPending)

\* Each cell has at most one repeating timer; the network cell is either in one
\* bootstrap attempt or has its timer, never both and never two; and while a
\* retry is scheduled no timer runs and no networkStats() call has been issued.
C18_OneBootstrapOrOneTimer ==
  /\ cpuTimers \in {0, 1}
  /\ netTimers \in {0, 1}
  /\ BootstrapsInFlight + netTimers = IF constructed THEN 1 ELSE 0
  /\ retryPending > 0 => netTimers = 0 /\ netCalls = 0 /\ networkIntervals = 0

\* C18: at most one repeating timer per cell ever exists. Through any sequence of
\* rejected interface lookups and retries the network timer is started at most
\* once and never stopped, a retry (which resets networkIntervals to 0) is never
\* scheduled and never runs once the timer is started or a seed call has settled,
\* at most one bootstrap attempt is pending or in flight at a time, and the CPU
\* timer is started at most once.
C18_AtMostOneTimerPerCell ==
  /\ []C18_OneBootstrapOrOneTimer
  /\ [][/\ cpuTimers' >= cpuTimers
        /\ netTimers' >= netTimers
        /\ (retryPending' > retryPending \/ lastEvent'.op = "NetRetry") =>
             /\ netTimers = 0
             /\ netCalls = 0
             /\ netOk = <<>>
             /\ networkIntervals = 0
        /\ networkIntervals' >= networkIntervals]_vars

\* C18 witness: two interface lookups were rejected and retried, the third
\* resolved, and both cells sample on their single timers with every call of the
\* network cell issued.
C18_Witness ==
  /\ ifaceCalls = 3
  /\ netTimers = 1
  /\ cpuTimers = 1
  /\ BootstrapsInFlight = 0
  /\ netCalls = MaxCalls
  /\ networkIntervals >= 1

====
